---- MODULE Spec2Model ----
(***************************************************************************)
(* stream-eventify: StreamDiff turns a stream of collection snapshots into *)
(* a stream of Add/Remove actions (src/src/lib.rs).                        *)
(*                                                                         *)
(* The model has the two fields of Inner (state, action_queue), the        *)
(* upstream stream the adapter owns, and the position of poll_next in its  *)
(* loop.  One iteration of the loop of poll_next is one step, because each *)
(* iteration is one exchange with the upstream stream.  The upstream is    *)
(* any stream: it gives up to MaxScript arbitrary answers (an item, end of *)
(* stream, or Pending), or the items of the repository's test, and then a  *)
(* tail answer that it repeats for ever.  An upstream that yields items    *)
(* after having reported the end is among them.                            *)
(***************************************************************************)
EXTENDS Naturals, Sequences, FiniteSets

VARIABLES
    state,         \* Inner.state: HashSet<T>
    action_queue,  \* Inner.action_queue: VecDeque<Action<T>>
    hist,          \* upstream: the answers it has given, in order (tail
                   \* excluded), each snapshot as the set of its elements
    tail,          \* upstream: the answer it repeats for ever once it has
                   \* given it ("unset" before)
    pc,            \* "idle": no poll_next in progress; "loop": at the loop head
    last,          \* what the most recent completed poll_next returned
    prev,          \* what the poll_next before that returned
    finished,      \* history: some poll_next has returned Ready(None)
    delivered,     \* history: the Actions returned so far, in order
    batch,         \* history: action_queue as the most recent update left it
    old,           \* history: state as the most recent update found it
    found,         \* history: action_queue as the most recent update found it
    cons,          \* history: upstream polls made by the current poll_next
    upds,          \* history: updates made by the current poll_next
    hint           \* history: what the upstream's size_hint and the
                   \* StreamDiff's returned in the most recent call made
                   \* since the last poll_next; <<>> without such a call

vars == <<state, action_queue, hist, tail, pc, last, prev, finished,
          delivered, batch, old, found, cons, upds, hint>>

(* Bounds of the model. *)
MaxElem == 3
MaxLen == 2
MaxScript == 2
MaxHint == 1

Elems == 1..MaxElem

(* ---------------------------------------------------------------------- *)
(* Data                                                                   *)
(* ---------------------------------------------------------------------- *)

Add(x) == [op |-> "Add", x |-> x]

Remove(x) == [op |-> "Remove", x |-> x]

(* A snapshot is what the upstream yields: any iterable of elements,      *)
(* duplicates and order included.                                         *)
Snapshots == UNION {[1..n -> Elems] : n \in 0..MaxLen}

Item(s) == [kind |-> "item", item |-> s]

Ended == [kind |-> "none", item |-> <<>>]

Pending == [kind |-> "pending", item |-> <<>>]

Answers == {Item(s) : s \in Snapshots} \cup {Ended, Pending}

(* The snapshots of the repository's test. *)
TestStates ==
    << Item(<<>>), Item(<<1>>), Item(<<1>>), Item(<<1, 2>>),
       Item(<<1, 2, 3>>), Item(<<1, 3>>), Item(<<1, 2, 3, 4>>), Item(<<>>) >>

(* ---------------------------------------------------------------------- *)
(* Inner                                                                  *)
(* ---------------------------------------------------------------------- *)

(* HashSet::from_iter *)
FromIter(s) == {s[i] : i \in DOMAIN s}

(* A difference that ignores its second set. *)
Difference_Whole(a, b) == a

(* HashSet::difference *)
Difference(a, b) == {x \in a : x \notin b}

(* The orders in which a HashSet may enumerate its elements. *)
Orders(S) ==
    {f \in [1..Cardinality(S) -> S] :
        \A i, j \in 1..Cardinality(S) : i # j => f[i] # f[j]}

(* add_iter.chain(remove_iter).collect(): the Adds queued first. *)
Chain_AddsFirst(removes, adds) ==
    {[i \in 1..(Len(a) + Len(r)) |->
        IF i <= Len(a) THEN Add(a[i]) ELSE Remove(r[i - Len(a)])] :
     r \in Orders(removes), a \in Orders(adds)}

(* remove_iter.chain(add_iter).collect() *)
Chain(removes, adds) ==
    {[i \in 1..(Len(r) + Len(a)) |->
        IF i <= Len(r) THEN Remove(r[i]) ELSE Add(a[i - Len(r)])] :
     r \in Orders(removes), a \in Orders(adds)}

(* An update that forgets the elements that disappeared. *)
UpdateQueues_AddsOnly(st, new_state) ==
    Chain({}, Difference(FromIter(new_state), st))

(* An update with the two differences taken the wrong way round. *)
UpdateQueues_Swapped(st, new_state) ==
    Chain(Difference(FromIter(new_state), st),
          Difference(st, FromIter(new_state)))

(* An update that does not collect the snapshot into a set: one Add for  *)
(* each occurrence of a new element.                                     *)
UpdateQueues_PerOccurrence(st, new_state) ==
    {[i \in 1..(Len(r) + Len(a)) |->
        IF i <= Len(r) THEN Remove(r[i]) ELSE Add(a[i - Len(r)])] :
     r \in Orders(Difference(st, FromIter(new_state))),
     a \in {SelectSeq(new_state, LAMBDA x : x \notin st)}}

(* An update that queues an Add for every element of the snapshot. *)
UpdateQueues_AddsWhole(st, new_state) ==
    Chain(Difference(st, FromIter(new_state)), FromIter(new_state))

(* Inner::update: the queues it may leave for a state and a snapshot. *)
UpdateQueues(st, new_state) ==
    Chain(Difference(st, FromIter(new_state)),
          Difference(FromIter(new_state), st))

(* An update that merges the snapshot into the state. *)
UpdateState_Merged(st, new_state) == st \cup FromIter(new_state)

(* Inner::update: the state it leaves. *)
UpdateState(st, new_state) == FromIter(new_state)

(* ---------------------------------------------------------------------- *)
(* Upstream                                                               *)
(* ---------------------------------------------------------------------- *)

(* An answer as hist keeps it: a snapshot as the set of its elements. *)
Recorded(a) == [kind |-> a.kind, item |-> {a.item[i] : i \in DOMAIN a.item}]

(* hist when the upstream has given exactly the answers s. *)
HistOf(s) == [i \in 1..Len(s) |-> Recorded(s[i])]

IsPrefix(h, s) == Len(h) <= Len(s) /\ \A i \in 1..Len(h) : h[i] = s[i]

(* The answers the upstream may give next, before its tail: any answer   *)
(* while it has given fewer than MaxScript, and the next item of the     *)
(* test while it has given what the test's stream gives.                 *)
Scripted ==
    IF tail # "unset" THEN {}
    ELSE (IF Len(hist) < MaxScript THEN Answers ELSE {})
         \cup (IF IsPrefix(hist, HistOf(TestStates)) /\ Len(hist) < Len(TestStates)
               THEN {TestStates[Len(hist) + 1]} ELSE {})

(* The answers with which the upstream may start or go on repeating. *)
Repeated == IF tail = "unset" THEN {"none", "pending"} ELSE {tail}

(* ---------------------------------------------------------------------- *)
(* StreamDiff                                                             *)
(* ---------------------------------------------------------------------- *)

(* A StreamDiff built around an Inner that already has an Action queued. *)
Init_QueueNotEmpty ==
    /\ state = {}
    /\ action_queue = <<Add(1)>>
    /\ hist = <<>>
    /\ tail = "unset"
    /\ pc = "idle"
    /\ last = "none"
    /\ prev = "none"
    /\ finished = FALSE
    /\ delivered = <<>>
    /\ batch = <<>>
    /\ old = {}
    /\ found = <<>>
    /\ cons = 0
    /\ upds = 0
    /\ hint = <<>>

(* A StreamDiff built around an Inner that already has an element. *)
Init_StateNotEmpty ==
    /\ state = {1}
    /\ action_queue = <<>>
    /\ hist = <<>>
    /\ tail = "unset"
    /\ pc = "idle"
    /\ last = "none"
    /\ prev = "none"
    /\ finished = FALSE
    /\ delivered = <<>>
    /\ batch = <<>>
    /\ old = {}
    /\ found = <<>>
    /\ cons = 0
    /\ upds = 0
    /\ hint = <<>>

(* StreamDiff::new, StreamDiffExt::diff: the stream it is given and      *)
(* Inner::new().                                                         *)
Init ==
    /\ state = {}
    /\ action_queue = <<>>
    /\ hist = <<>>
    /\ tail = "unset"
    /\ pc = "idle"
    /\ last = "none"
    /\ prev = "none"
    /\ finished = FALSE
    /\ delivered = <<>>
    /\ batch = <<>>
    /\ old = {}
    /\ found = <<>>
    /\ cons = 0
    /\ upds = 0
    /\ hint = <<>>

(* The consumer calls poll_next. *)
Poll ==
    /\ pc = "idle"
    /\ pc' = "loop"
    /\ cons' = 0
    /\ upds' = 0
    /\ hint' = <<>>
    /\ UNCHANGED <<state, action_queue, hist, tail, last, prev, finished,
                   delivered, batch, old, found>>

(* A next_from_queue that takes from the back of the queue (pop_back). *)
IterQueued_PopBack ==
    /\ pc = "loop"
    /\ action_queue # <<>>
    /\ action_queue' = SubSeq(action_queue, 1, Len(action_queue) - 1)
    /\ delivered' = Append(delivered, action_queue[Len(action_queue)])
    /\ prev' = last
    /\ last' = "action"
    /\ pc' = "idle"
    /\ UNCHANGED <<state, hist, tail, finished, batch, old, found, cons, upds>>
    /\ UNCHANGED hint

(* if let Some(action) = me.inner.next_from_queue() { return Ready(Some(action)) } *)
IterQueued ==
    /\ pc = "loop"
    /\ action_queue # <<>>
    /\ action_queue' = Tail(action_queue)
    /\ delivered' = Append(delivered, Head(action_queue))
    /\ prev' = last
    /\ last' = "action"
    /\ pc' = "idle"
    /\ UNCHANGED <<state, hist, tail, finished, batch, old, found, cons, upds>>
    /\ UNCHANGED hint

(* A poll_next that polls the upstream before it looks at the queue. *)
IterUpdate_QueueUnchecked ==
    /\ pc = "loop"
    /\ \E a \in Scripted :
          /\ a.kind = "item"
          /\ hist' = Append(hist, Recorded(a))
          /\ \E q \in UpdateQueues(state, a.item) :
                /\ action_queue' = q
                /\ batch' = q
          /\ state' = UpdateState(state, a.item)
    /\ old' = state
    /\ found' = action_queue
    /\ cons' = cons + 1
    /\ upds' = upds + 1
    /\ UNCHANGED <<tail, pc, last, prev, finished, delivered>>
    /\ UNCHANGED hint

(* A poll_next without the loop: after an update that queued nothing it  *)
(* returns Pending.                                                      *)
IterUpdate_ReturnsWhenNothingQueued ==
    /\ pc = "loop"
    /\ action_queue = <<>>
    /\ \E a \in Scripted :
          /\ a.kind = "item"
          /\ hist' = Append(hist, Recorded(a))
          /\ \E q \in UpdateQueues(state, a.item) :
                /\ action_queue' = q
                /\ batch' = q
                /\ IF q = <<>>
                   THEN pc' = "idle" /\ last' = "pending" /\ prev' = last
                   ELSE UNCHANGED <<pc, last, prev>>
          /\ state' = UpdateState(state, a.item)
    /\ old' = state
    /\ found' = action_queue
    /\ cons' = cons + 1
    /\ upds' = upds + 1
    /\ UNCHANGED <<tail, finished, delivered>>
    /\ UNCHANGED hint

(* A poll_next that returns Pending after every update, leaving what it  *)
(* queued to a later poll_next.                                          *)
IterUpdate_Suspends ==
    /\ pc = "loop"
    /\ action_queue = <<>>
    /\ \E a \in Scripted :
          /\ a.kind = "item"
          /\ hist' = Append(hist, Recorded(a))
          /\ \E q \in UpdateQueues(state, a.item) :
                /\ action_queue' = q
                /\ batch' = q
          /\ state' = UpdateState(state, a.item)
    /\ old' = state
    /\ found' = action_queue
    /\ cons' = cons + 1
    /\ upds' = upds + 1
    /\ pc' = "idle"
    /\ prev' = last
    /\ last' = "pending"
    /\ UNCHANGED <<tail, finished, delivered>>
    /\ UNCHANGED hint

(* Poll::Ready(Some(item)) => item; me.inner.update(state); loop *)
IterUpdate ==
    /\ pc = "loop"
    /\ action_queue = <<>>
    /\ \E a \in Scripted :
          /\ a.kind = "item"
          /\ hist' = Append(hist, Recorded(a))
          /\ \E q \in UpdateQueues(state, a.item) :
                /\ action_queue' = q
                /\ batch' = q
          /\ state' = UpdateState(state, a.item)
    /\ old' = state
    /\ found' = action_queue
    /\ cons' = cons + 1
    /\ upds' = upds + 1
    /\ UNCHANGED <<tail, pc, last, prev, finished, delivered>>
    /\ UNCHANGED hint

(* A poll_next that parks once it has reported the end. *)
IterNone_ParksAfterEnd ==
    /\ pc = "loop"
    /\ action_queue = <<>>
    /\ \/ Ended \in Scripted /\ hist' = Append(hist, Recorded(Ended)) /\ tail' = tail
       \/ "none" \in Repeated /\ hist' = hist /\ tail' = "none"
    /\ cons' = cons + 1
    /\ prev' = last
    /\ last' = IF finished THEN "pending" ELSE "finished"
    /\ finished' = TRUE
    /\ pc' = "idle"
    /\ UNCHANGED <<state, action_queue, delivered, batch, old, found, upds>>
    /\ UNCHANGED hint

(* A poll_next that, at the end of the upstream, queues a Remove for each *)
(* element still in state before it reports the end.                     *)
IterNone_FlushesState ==
    /\ pc = "loop"
    /\ action_queue = <<>>
    /\ \/ Ended \in Scripted /\ hist' = Append(hist, Recorded(Ended)) /\ tail' = tail
       \/ "none" \in Repeated /\ hist' = hist /\ tail' = "none"
    /\ cons' = cons + 1
    /\ IF state = {}
       THEN /\ prev' = last
            /\ last' = "finished"
            /\ finished' = TRUE
            /\ pc' = "idle"
            /\ UNCHANGED <<state, action_queue>>
       ELSE /\ action_queue' \in Chain(state, {})
            /\ state' = {}
            /\ UNCHANGED <<prev, last, finished, pc>>
    /\ UNCHANGED <<delivered, batch, old, found, upds>>
    /\ UNCHANGED hint

(* A poll_next that empties state when the upstream ends. *)
IterNone_ClearsState ==
    /\ pc = "loop"
    /\ action_queue = <<>>
    /\ \/ Ended \in Scripted /\ hist' = Append(hist, Recorded(Ended)) /\ tail' = tail
       \/ "none" \in Repeated /\ hist' = hist /\ tail' = "none"
    /\ cons' = cons + 1
    /\ prev' = last
    /\ last' = "finished"
    /\ finished' = TRUE
    /\ pc' = "idle"
    /\ state' = {}
    /\ UNCHANGED <<action_queue, delivered, batch, old, found, upds>>
    /\ UNCHANGED hint

(* A poll_next with the Ready(None) arm returning Pending. *)
IterNone_ReportsPending ==
    /\ pc = "loop"
    /\ action_queue = <<>>
    /\ \/ Ended \in Scripted /\ hist' = Append(hist, Recorded(Ended)) /\ tail' = tail
       \/ "none" \in Repeated /\ hist' = hist /\ tail' = "none"
    /\ cons' = cons + 1
    /\ prev' = last
    /\ last' = "pending"
    /\ finished' = finished
    /\ pc' = "idle"
    /\ UNCHANGED <<state, action_queue, delivered, batch, old, found, upds>>
    /\ UNCHANGED hint

(* Poll::Ready(None) => return Poll::Ready(None) *)
IterNone ==
    /\ pc = "loop"
    /\ action_queue = <<>>
    /\ \/ Ended \in Scripted /\ hist' = Append(hist, Recorded(Ended)) /\ tail' = tail
       \/ "none" \in Repeated /\ hist' = hist /\ tail' = "none"
    /\ cons' = cons + 1
    /\ prev' = last
    /\ last' = "finished"
    /\ finished' = TRUE
    /\ pc' = "idle"
    /\ UNCHANGED <<state, action_queue, delivered, batch, old, found, upds>>
    /\ UNCHANGED hint

(* A poll_next that polls the upstream again when it answers Pending. *)
IterPending_PollsAgain ==
    /\ pc = "loop"
    /\ action_queue = <<>>
    /\ \/ Pending \in Scripted /\ hist' = Append(hist, Recorded(Pending)) /\ tail' = tail
       \/ "pending" \in Repeated /\ hist' = hist /\ tail' = "pending"
    /\ cons' = cons + 1
    /\ IF cons = 0
       THEN UNCHANGED <<prev, last, pc>>
       ELSE prev' = last /\ last' = "pending" /\ pc' = "idle"
    /\ UNCHANGED <<state, action_queue, finished, delivered, batch, old, found, upds>>
    /\ UNCHANGED hint

(* A poll_next with the Pending arm returning the end of the stream. *)
IterPending_ReportsEnd ==
    /\ pc = "loop"
    /\ action_queue = <<>>
    /\ \/ Pending \in Scripted /\ hist' = Append(hist, Recorded(Pending)) /\ tail' = tail
       \/ "pending" \in Repeated /\ hist' = hist /\ tail' = "pending"
    /\ cons' = cons + 1
    /\ prev' = last
    /\ last' = "finished"
    /\ finished' = TRUE
    /\ pc' = "idle"
    /\ UNCHANGED <<state, action_queue, delivered, batch, old, found, upds>>
    /\ UNCHANGED hint

(* Poll::Pending => return Poll::Pending *)
IterPending ==
    /\ pc = "loop"
    /\ action_queue = <<>>
    /\ \/ Pending \in Scripted /\ hist' = Append(hist, Recorded(Pending)) /\ tail' = tail
       \/ "pending" \in Repeated /\ hist' = hist /\ tail' = "pending"
    /\ cons' = cons + 1
    /\ prev' = last
    /\ last' = "pending"
    /\ pc' = "idle"
    /\ UNCHANGED <<state, action_queue, finished, delivered, batch, old, found, upds>>
    /\ UNCHANGED hint

Next == Poll \/ IterQueued \/ IterUpdate \/ IterNone \/ IterPending

Spec == Init /\ [][Next]_vars

(* The StreamDiff with a consumer that goes on calling poll_next and a    *)
(* poll_next that, once called, goes on running.                         *)
SpecLive == Init /\ [][Next]_vars /\ WF_vars(Next)

(* ---------------------------------------------------------------------- *)
(* size_hint                                                              *)
(* ---------------------------------------------------------------------- *)

(* What a stream's size_hint may return: a lower bound and an upper bound *)
(* that is None (<<>>) or Some(n) (<<n>>), not below the lower bound.     *)
Hints ==
    {<<lo, <<>>>> : lo \in 0..MaxHint}
        \cup {h \in {<<lo, <<hi>>>> : lo \in 0..MaxHint, hi \in 0..MaxHint} :
                 h[1] <= h[2][1]}

(* A size_hint that counts the Actions queued on top of the upstream's.  *)
SizeHint_CountsQueued ==
    /\ pc = "idle"
    /\ \E h \in Hints :
          hint' = <<h, <<h[1] + Len(action_queue),
                        IF h[2] = <<>> THEN <<>>
                        ELSE <<h[2][1] + Len(action_queue)>>>> >>
    /\ UNCHANGED <<state, action_queue, hist, tail, pc, last, prev, finished,
                   delivered, batch, old, found, cons, upds>>

(* StreamDiff::size_hint: self.stream.size_hint().  It borrows the       *)
(* StreamDiff, so it is called between two poll_next.                    *)
SizeHint ==
    /\ pc = "idle"
    /\ \E h \in Hints : hint' = <<h, h>>
    /\ UNCHANGED <<state, action_queue, hist, tail, pc, last, prev, finished,
                   delivered, batch, old, found, cons, upds>>

NextHint == Next \/ SizeHint

(* The StreamDiff with a consumer that also asks for its size_hint. *)
SpecHint == Init /\ [][NextHint]_vars

(* ---------------------------------------------------------------------- *)
(* History read off the variables                                         *)
(* ---------------------------------------------------------------------- *)

IsItem(a) == a.kind = "item"

(* The snapshots passed to update so far, in order. *)
Fed == SelectSeq(hist, IsItem)

NumFed == Len(Fed)

(* The distinct elements of each snapshot passed to update, in order; at  *)
(* 0 the empty set, the state of a new Inner.                             *)
Sets ==
    LET f == Fed
    IN  [k \in 0..Len(f) |-> IF k = 0 THEN {} ELSE f[k].item]

(* The distinct elements of the k-th snapshot passed to update. *)
SetOf(k) == Sets[k]

(* The Actions of the k-th batch: the difference between the k-th        *)
(* snapshot and the one before it.                                        *)
Expected(sets, k) ==
    {Add(x) : x \in sets[k] \ sets[k - 1]}
        \cup {Remove(x) : x \in sets[k - 1] \ sets[k]}

BatchSize(sets, k) ==
    Cardinality(sets[k] \ sets[k - 1]) + Cardinality(sets[k - 1] \ sets[k])

RECURSIVE SumSizes(_, _)
(* The number of Actions in the first k batches. *)
SumSizes(sets, k) ==
    IF k = 0 THEN 0 ELSE SumSizes(sets, k - 1) + BatchSize(sets, k)

(* The number of Actions in all the batches computed so far. *)
Total == LET sets == Sets IN SumSizes(sets, NumFed)

RECURSIVE Replay(_)
(* The set obtained from the empty set by applying a sequence of Actions. *)
Replay(acts) ==
    IF acts = <<>> THEN {}
    ELSE LET front == Replay(SubSeq(acts, 1, Len(acts) - 1))
             a == acts[Len(acts)]
         IN  IF a.op = "Add" THEN front \cup {a.x} ELSE front \ {a.x}

(* ---------------------------------------------------------------------- *)
(* C1                                                                     *)
(* ---------------------------------------------------------------------- *)

(* C1: whenever the queue is empty and at least one snapshot was passed   *)
(* to update, replaying every delivered Action, in delivery order, from   *)
(* the empty set gives the distinct elements of the last snapshot passed  *)
(* to update.                                                             *)
ReplayReconstructsSnapshot ==
    (action_queue = <<>> /\ NumFed > 0) => Replay(delivered) = SetOf(NumFed)

(* Two snapshots were drained, the second removing and adding elements. *)
ReplayWitness ==
    /\ action_queue = <<>>
    /\ NumFed = 2
    /\ pc = "idle"
    /\ \E i, j \in 1..Len(delivered) :
          delivered[i].op = "Remove" /\ delivered[j].op = "Add" /\ i < j
    /\ Replay(delivered) = SetOf(2)
    /\ SetOf(2) # {}

(* ---------------------------------------------------------------------- *)
(* C2                                                                     *)
(* ---------------------------------------------------------------------- *)

(* The upstream is fused: once it has reported the end it reports the end *)
(* whenever it is polled again.                                           *)
Fused ==
    /\ \A i, j \in 1..Len(hist) :
          (i < j /\ hist[i].kind = "none") => hist[j].kind = "none"
    /\ (\E i \in 1..Len(hist) : hist[i].kind = "none") => tail # "pending"

(* C2 as stated: once a poll_next has returned Ready(None), the most      *)
(* recent poll_next has always returned Ready(None), whatever the         *)
(* upstream answers afterwards.                                           *)
FinishedIsTerminal == finished => last = "finished"

(* C2 amended: once a poll_next has returned Ready(None), every later     *)
(* poll_next returns Ready(None) as long as the upstream goes on          *)
(* reporting the end when polled again.                                   *)
FinishedStaysWhileUpstreamEnded == (finished /\ Fused) => last = "finished"

(* Two poll_next in a row returned Ready(None), after Actions were        *)
(* delivered, with a non-empty state left.                                *)
FinishedTwiceWitness ==
    /\ finished
    /\ Fused
    /\ pc = "idle"
    /\ prev = "finished"
    /\ last = "finished"
    /\ delivered # <<>>
    /\ state # {}

(* ---------------------------------------------------------------------- *)
(* C3                                                                     *)
(* ---------------------------------------------------------------------- *)

(* C3 (I1): update has only ever been called with an empty action_queue,  *)
(* and no Action of an earlier batch was dropped: the Actions delivered    *)
(* and those still queued are as many as all the batches computed hold.   *)
UpdateOnlyWhenDrained ==
    /\ found = <<>>
    /\ Len(delivered) + Len(action_queue) = Total

(* A second batch was computed after a non-empty first one. *)
SecondBatchWitness ==
    /\ NumFed = 2
    /\ SetOf(1) # {}
    /\ batch # <<>>
    /\ action_queue = batch
    /\ found = <<>>
    /\ Len(delivered) = Cardinality(SetOf(1))

(* ---------------------------------------------------------------------- *)
(* C4, C5                                                                 *)
(* ---------------------------------------------------------------------- *)

Contents(q) == {q[i] : i \in DOMAIN q}

(* C4: the queue update leaves holds one Add(x) for each x of the         *)
(* snapshot that was not in the state, one Remove(x) for each x of the    *)
(* state that is not in the snapshot, and nothing else, each once.        *)
BatchIsExactDifference ==
    NumFed > 0 =>
        LET S == SetOf(NumFed) IN
        /\ Contents(batch) =
              {Add(x) : x \in S \ old} \cup {Remove(x) : x \in old \ S}
        /\ Len(batch) = Cardinality(S \ old) + Cardinality(old \ S)
        /\ \A x \in S \cap old : Add(x) \notin Contents(batch)
                                  /\ Remove(x) \notin Contents(batch)

(* A batch just computed, with an Add and a Remove, from a state and a   *)
(* snapshot that share an element.                                       *)
MixedBatchWitness ==
    /\ NumFed > 0
    /\ action_queue = batch
    /\ old \ SetOf(NumFed) # {}
    /\ SetOf(NumFed) \ old # {}
    /\ SetOf(NumFed) \cap old # {}
    /\ Len(batch) = 2

(* C5 (I2): no batch holds both Add(x) and Remove(x) for the same x. *)
NoAddAndRemoveOfSameElement ==
    \A i, j \in DOMAIN batch :
        ~(batch[i].op = "Add" /\ batch[j].op = "Remove" /\ batch[i].x = batch[j].x)

(* A batch computed from a state and a snapshot that share an element:    *)
(* the shared element is the one a sloppy difference would add and remove.*)
SharedElementWitness ==
    /\ NumFed > 1
    /\ action_queue = batch
    /\ batch # <<>>
    /\ old \cap SetOf(NumFed) # {}

(* ---------------------------------------------------------------------- *)
(* C6                                                                     *)
(* ---------------------------------------------------------------------- *)

(* The upstream has always been ready: items only, then the end. *)
AlwaysReady ==
    /\ \A i \in 1..Len(hist) : hist[i].kind = "item"
    /\ tail # "pending"

(* The positions in delivered of the part of the k-th batch delivered so *)
(* far.                                                                   *)
Segment(sets, k) ==
    LET lo == SumSizes(sets, k - 1)
        hi == lo + BatchSize(sets, k)
    IN  (lo + 1)..(IF hi <= Len(delivered) THEN hi ELSE Len(delivered))

(* delivered is the batches so far, one after the other, each a sequence  *)
(* without repetition of Actions of that batch.                           *)
BatchesInOrder ==
    LET sets == Sets
        n == NumFed
    IN  /\ Len(delivered) <= SumSizes(sets, n)
        /\ \A k \in 1..n :
              LET seg == Segment(sets, k)
                  exp == Expected(sets, k)
              IN  /\ \A i \in seg : delivered[i] \in exp
                  /\ \A i, j \in seg : i # j => delivered[i] # delivered[j]

Range(from, to) == {delivered[i] : i \in from..to}

(* C6: for an always-ready upstream the Actions delivered are the         *)
(* batches of the snapshots, in upstream order, each batch the difference *)
(* of a snapshot and the one before; no poll_next returns Pending, and    *)
(* Ready(None) comes with every batch delivered in full.  For the         *)
(* snapshots of the test the batches are {Add 1}, {Add 2}, {Add 3},       *)
(* {Remove 2}, {Add 2, Add 4}, {Remove 1, ..., Remove 4}.                 *)
AlwaysReadyOutput ==
    AlwaysReady =>
        /\ BatchesInOrder
        /\ last # "pending"
        /\ (pc = "idle" /\ tail = "none") => last = "finished"
        /\ finished =>
              /\ tail = "none"
              /\ last = "finished"
              /\ Len(delivered) = Total
        /\ (hist = HistOf(TestStates) /\ finished) =>
              /\ Len(delivered) = 10
              /\ delivered[1] = Add(1)
              /\ delivered[2] = Add(2)
              /\ delivered[3] = Add(3)
              /\ delivered[4] = Remove(2)
              /\ Range(5, 6) = {Add(2), Add(4)}
              /\ Range(7, 10) = {Remove(1), Remove(2), Remove(3), Remove(4)}

(* The test ran to its end. *)
TestRunWitness ==
    /\ hist = HistOf(TestStates)
    /\ AlwaysReady
    /\ pc = "idle"
    /\ last = "finished"
    /\ Len(delivered) = 10

(* ---------------------------------------------------------------------- *)
(* C7                                                                     *)
(* ---------------------------------------------------------------------- *)

(* C7: when poll_next has returned Ready(None), the Actions delivered are *)
(* as many as the batches of the snapshots received hold, and none is     *)
(* queued: nothing was produced for the elements left in state.           *)
NoTrailingRemoves ==
    (pc = "idle" /\ last = "finished") =>
        /\ Len(delivered) = Total
        /\ action_queue = <<>>

(* Ready(None) was returned with elements left in state. *)
ResidualStateWitness ==
    /\ pc = "idle"
    /\ last = "finished"
    /\ state # {}
    /\ Cardinality(state) = Len(delivered)

(* ---------------------------------------------------------------------- *)
(* C8                                                                     *)
(* ---------------------------------------------------------------------- *)

(* C8: a snapshot with the same distinct elements as the one before it    *)
(* queues nothing, and a poll_next does not return because an update      *)
(* queued nothing: when it has returned after updates the last of which   *)
(* queued nothing, it has polled the upstream once more after them.       *)
EqualSnapshotQueuesNothing ==
    /\ (NumFed > 0 /\ SetOf(NumFed) = SetOf(NumFed - 1)) => batch = <<>>
    /\ (pc = "loop" /\ upds > 0 /\ batch = <<>>) => cons = upds
    /\ (pc = "idle" /\ upds > 0 /\ batch = <<>>) =>
          (cons = upds + 1 /\ last \in {"pending", "finished"})

(* A poll_next received a snapshot equal to the one before it, not empty, *)
(* polled the upstream again and returned on its answer.                  *)
EqualSnapshotWitness ==
    /\ NumFed > 1
    /\ SetOf(NumFed) = SetOf(NumFed - 1)
    /\ SetOf(NumFed) # {}
    /\ pc = "idle"
    /\ upds = 1
    /\ cons = 2
    /\ batch = <<>>

(* ---------------------------------------------------------------------- *)
(* C9                                                                     *)
(* ---------------------------------------------------------------------- *)

(* In this step the upstream is polled and gives an answer of this kind. *)
UpstreamSays(kind) ==
    /\ cons' = cons + 1
    /\ IF hist' # hist THEN hist'[Len(hist')].kind = kind ELSE tail' = kind

(* C9: a step in which the upstream answers Pending starts from an empty  *)
(* queue, ends the poll_next with Pending returned, and leaves state and  *)
(* action_queue as they were.                                             *)
PendingIsPassedOn ==
    [][UpstreamSays("pending") =>
          /\ action_queue = <<>>
          /\ pc' = "idle"
          /\ last' = "pending"
          /\ state' = state
          /\ action_queue' = action_queue
          /\ delivered' = delivered]_vars

(* Pending was returned on the first answer of the upstream in that       *)
(* poll_next, with elements in state.                                     *)
PendingWitness ==
    /\ pc = "idle"
    /\ last = "pending"
    /\ cons = 1
    /\ state # {}
    /\ action_queue = <<>>

(* ---------------------------------------------------------------------- *)
(* C10                                                                    *)
(* ---------------------------------------------------------------------- *)

(* The upstream has yielded one snapshot and answered Pending ever since. *)
ScenarioD ==
    /\ Len(hist) >= 1
    /\ hist[1].kind = "item"
    /\ \A i \in 2..Len(hist) : hist[i].kind = "pending"
    /\ tail # "none"

(* C10 (Scenario D): with such an upstream the Actions delivered are      *)
(* those of the one batch, each once; Pending is returned only when all   *)
(* of them were delivered, and after a Pending no Action is returned; no  *)
(* poll_next returns Ready(None).                                         *)
OneSnapshotThenPending ==
    ScenarioD =>
        /\ ~finished
        /\ last # "finished"
        /\ Contents(delivered) \subseteq {Add(x) : x \in hist[1].item}
        /\ Cardinality(Contents(delivered)) = Len(delivered)
        /\ last = "pending" => Contents(delivered) = {Add(x) : x \in hist[1].item}
        /\ prev = "pending" => last = "pending"

(* Both Actions of the one batch were delivered and two poll_next in a    *)
(* row returned Pending.                                                  *)
ScenarioDWitness ==
    /\ ScenarioD
    /\ tail = "pending"
    /\ pc = "idle"
    /\ Len(delivered) = 2
    /\ prev = "pending"
    /\ last = "pending"

(* ---------------------------------------------------------------------- *)
(* C11                                                                    *)
(* ---------------------------------------------------------------------- *)

(* The snapshots with the same distinct elements as the snapshot most     *)
(* recently passed to update: its elements permuted or repeated.          *)
Variants ==
    LET S == SetOf(NumFed)
    IN  {s \in Snapshots : {s[i] : i \in DOMAIN s} = S}

(* An update has just been made by the poll_next in progress. *)
JustUpdated == pc = "loop" /\ upds > 0 /\ action_queue = batch

(* C11: update, given the state it found and any snapshot with the same   *)
(* distinct elements as the one it was given, queues the same set of      *)
(* Actions, as many of them as it did queue; and for the snapshot         *)
(* [5, 5, 5] and an empty state it queues Add(5) and nothing else.        *)
BatchDependsOnElementsOnly ==
    /\ JustUpdated =>
          \A s \in Variants : \A q \in UpdateQueues(old, s) :
              Contents(q) = Contents(batch) /\ Len(q) = Len(batch)
    /\ state = {} => UpdateQueues(state, <<5, 5, 5>>) = {<<Add(5)>>}

(* A non-empty batch was computed from a non-empty state for a snapshot   *)
(* of two distinct elements, which has a permuted variant.                *)
VariantsWitness ==
    /\ JustUpdated
    /\ batch # <<>>
    /\ old # {}
    /\ Cardinality(SetOf(NumFed)) = 2
    /\ Cardinality(Variants) >= 2

(* ---------------------------------------------------------------------- *)
(* C12                                                                    *)
(* ---------------------------------------------------------------------- *)

(* Whenever the upstream was polled it has reported the end: it has       *)
(* yielded no snapshot and has not answered Pending.                      *)
ScenarioB ==
    /\ \A i \in 1..Len(hist) : hist[i].kind = "none"
    /\ tail # "pending"

(* C12 (Scenario B): with such an upstream a new StreamDiff delivers no   *)
(* Action and queues none, and every poll_next that has returned, the     *)
(* first one included, has returned Ready(None).                          *)
EndBeforeAnySnapshot ==
    ScenarioB =>
        /\ delivered = <<>>
        /\ action_queue = <<>>
        /\ state = {}
        /\ last \in {"none", "finished"}
        /\ prev \in {"none", "finished"}
        /\ (hist # <<>> \/ tail = "none") => (finished /\ last = "finished")

(* The first poll_next has returned Ready(None). *)
ScenarioBWitness ==
    /\ ScenarioB
    /\ pc = "idle"
    /\ prev = "none"
    /\ last = "finished"
    /\ cons = 1
    /\ delivered = <<>>

(* ---------------------------------------------------------------------- *)
(* C13                                                                    *)
(* ---------------------------------------------------------------------- *)

(* C13: what size_hint returns is what the upstream's size_hint returned  *)
(* to it, lower and upper bound, whatever is queued.                      *)
HintIsUpstreamHint == hint # <<>> => hint[2] = hint[1]

(* size_hint returned an upper bound of 1 with two Actions queued, and a  *)
(* lower bound of 1.                                                      *)
HintWitness ==
    /\ hint # <<>>
    /\ hint[2] = <<1, <<1>>>>
    /\ Len(action_queue) = 2
    /\ pc = "idle"

(* ---------------------------------------------------------------------- *)
(* C14                                                                    *)
(* ---------------------------------------------------------------------- *)

(* C14: a poll_next that finds the queue not empty when it starts returns *)
(* the Action at its head in its first step, without polling the          *)
(* upstream: the upstream and state are as they were and the queue has    *)
(* lost that Action and no other.                                         *)
QueuedActionIsServedFirst ==
    [][(pc = "loop" /\ cons = 0 /\ action_queue # <<>>) =>
          /\ pc' = "idle"
          /\ last' = "action"
          /\ delivered' = Append(delivered, Head(action_queue))
          /\ action_queue' = Tail(action_queue)
          /\ cons' = 0
          /\ hist' = hist
          /\ tail' = tail
          /\ state' = state]_vars

(* A poll_next returned the second Action of a batch of three without    *)
(* polling the upstream, and left the third queued.                       *)
ServedFromQueueWitness ==
    /\ pc = "idle"
    /\ last = "action"
    /\ cons = 0
    /\ Len(batch) = 3
    /\ action_queue = <<batch[3]>>
    /\ delivered[Len(delivered)] = batch[2]
    /\ state # {}

(* ---------------------------------------------------------------------- *)
(* C15                                                                    *)
(* ---------------------------------------------------------------------- *)

(* C15: a step that returns Pending starts from an empty queue and is one *)
(* in which the upstream answers Pending; and a poll_next that was given  *)
(* a snapshot with a non-empty difference has returned an Action, the     *)
(* first of that batch.                                                   *)
PendingOnlyFromUpstream ==
    /\ [][(pc = "loop" /\ pc' = "idle" /\ last' = "pending") =>
             (action_queue = <<>> /\ UpstreamSays("pending"))]_vars
    /\ []((pc = "idle" /\ upds > 0 /\ batch # <<>>) =>
             (last = "action" /\ delivered[Len(delivered)] = batch[1]))

(* After a poll_next that returned Pending, the next one was given a      *)
(* snapshot and returned an Action.                                       *)
WakeupWitness ==
    /\ pc = "idle"
    /\ prev = "pending"
    /\ last = "action"
    /\ upds = 1
    /\ cons = 1

(* ---------------------------------------------------------------------- *)
(* C16                                                                    *)
(* ---------------------------------------------------------------------- *)

(* C16: state is always the set of distinct elements of the snapshot most *)
(* recently passed to update, empty before the first: update sets it to   *)
(* that and no other step changes it.                                     *)
StateIsLastSnapshot == state = SetOf(NumFed)

(* An update with an empty difference, then Pending returned, with the    *)
(* elements of the snapshot in state.                                     *)
StateKeptWitness ==
    /\ NumFed = 2
    /\ SetOf(2) = SetOf(1)
    /\ Cardinality(state) = 2
    /\ pc = "idle"
    /\ last = "pending"
    /\ upds = 1

(* ---------------------------------------------------------------------- *)
(* C17                                                                    *)
(* ---------------------------------------------------------------------- *)

(* C17: the first update finds an empty state and queues one Add for each *)
(* distinct element of its snapshot and no Remove.                        *)
FirstBatchIsAllAdds ==
    NumFed = 1 =>
        /\ old = {}
        /\ Contents(batch) = {Add(x) : x \in SetOf(1)}
        /\ Len(batch) = Cardinality(SetOf(1))

(* The first update, just made, of a snapshot of two distinct elements. *)
FirstBatchWitness ==
    /\ NumFed = 1
    /\ JustUpdated
    /\ Cardinality(SetOf(1)) = 2
    /\ Len(batch) = 2

(* ---------------------------------------------------------------------- *)
(* C18                                                                    *)
(* ---------------------------------------------------------------------- *)

RECURSIVE AppliesCleanly(_)
(* Each Add of the sequence is applied, from the empty set, when its      *)
(* element is absent and each Remove when its element is present.         *)
AppliesCleanly(acts) ==
    IF acts = <<>> THEN TRUE
    ELSE LET front == SubSeq(acts, 1, Len(acts) - 1)
             a == acts[Len(acts)]
         IN  /\ AppliesCleanly(front)
             /\ IF a.op = "Add" THEN a.x \notin Replay(front)
                                ELSE a.x \in Replay(front)

(* C18: between two poll_next, the Actions delivered followed by those    *)
(* queued, applied in order to the empty set, give state, each Add        *)
(* applied to an absent element and each Remove to a present one.         *)
DeliveredThenQueuedGiveState ==
    pc = "idle" =>
        /\ Replay(delivered \o action_queue) = state
        /\ AppliesCleanly(delivered \o action_queue)

(* Between two poll_next, with Actions delivered and Actions queued, a    *)
(* Remove among them.                                                     *)
ReplayWithQueueWitness ==
    /\ pc = "idle"
    /\ delivered # <<>>
    /\ action_queue # <<>>
    /\ NumFed = 2
    /\ \E i \in 1..Len(batch) : batch[i].op = "Remove"
    /\ state # {}

(* ---------------------------------------------------------------------- *)
(* C19                                                                    *)
(* ---------------------------------------------------------------------- *)

(* C19: among the Actions delivered of one batch, no Add comes before a   *)
(* Remove.                                                                *)
RemovesBeforeAdds ==
    LET sets == Sets
    IN  \A k \in 1..NumFed :
            LET seg == Segment(sets, k)
            IN  \A i, j \in seg :
                    i < j => ~(delivered[i].op = "Add" /\ delivered[j].op = "Remove")

(* A batch with a Remove and an Add was delivered in full. *)
RemoveThenAddWitness ==
    /\ pc = "idle"
    /\ action_queue = <<>>
    /\ Len(batch) = 2
    /\ Len(delivered) >= 3
    /\ delivered[Len(delivered) - 1] = batch[1]
    /\ delivered[Len(delivered)] = batch[2]
    /\ batch[1].op = "Remove"
    /\ batch[2].op = "Add"

(* ---------------------------------------------------------------------- *)
(* C20                                                                    *)
(* ---------------------------------------------------------------------- *)

(* When a poll_next has returned, the snapshots it was given had empty    *)
(* differences, all of them or, if it returned an Action, all but the     *)
(* last, whose difference was not empty.                                  *)
ConsumedEmptyDifferences ==
    pc = "idle" =>
        LET sets == Sets
            n == NumFed
        IN  /\ upds <= n
            /\ \A k \in (n - upds + 1)..n :
                  (k < n \/ last # "action") => sets[k] = sets[k - 1]
            /\ (upds > 0 /\ last = "action") => sets[n] # sets[n - 1]

(* C20: every poll_next returns; unless the upstream ends up answering    *)
(* Pending for ever, some poll_next returns Ready(None); and a poll_next  *)
(* goes through the snapshots with empty differences that it is given.    *)
PollNextTerminates ==
    /\ (pc = "loop") ~> (pc = "idle")
    /\ <>(finished \/ tail = "pending")
    /\ []ConsumedEmptyDifferences

(* One poll_next, not the first, was given a snapshot with an empty       *)
(* difference and then one with a non-empty difference, and returned an   *)
(* Action.                                                                *)
TerminationWitness ==
    /\ pc = "idle"
    /\ last = "action"
    /\ upds = 2
    /\ cons = 2
    /\ Len(delivered) >= 2
    /\ SetOf(NumFed - 1) = SetOf(NumFed - 2)
    /\ SetOf(NumFed - 1) # {}

====
